---- MODULE Spec2Model ----
(***************************************************************************)
(* Model of lib/pwiki/SearchAndReplace.py (WikidPad): the search node tree *)
(* (AndSearchNode, AllPagesNode, SubTreePagesNode, SimpleStrNode,          *)
(* RegexTextNode), ListPagesOperation and SearchReplaceOperation.          *)
(*                                                                         *)
(* Strings are sequences of character codes (97 = "a", 32 = " ").  Python  *)
(* positions are 0-based and are kept 0-based here.  Python's None, the    *)
(* truth values and raised exceptions are the strings "None", "True",      *)
(* "False", "Unknown", "TypeError", "AssertionError".                      *)
(***************************************************************************)
EXTENDS Integers, Sequences, FiniteSets, TLC

VARIABLES
    sar,      \* the SearchReplaceOperation object (settings, searchOpTree, wikiData)
    lp,       \* the ListPagesOperation object (searchOpTree reference, ordering, wikiData)
    trees,    \* the node trees the caller of ListPagesOperation holds, by reference
    node,     \* a search node tree used directly (AbstractSearchNode interface)
    src,      \* the operation whose settings were packed by getPackedSettings
    stream,   \* bytes produced by getPackedSettings / handed to setPackedSettings
    ret       \* the last call: its name, its arguments, its result, the nodes it evaluated

vars == <<sar, lp, trees, node, src, stream, ret>>

-----------------------------------------------------------------------------
(* Bounds *)

\* Number of wiki pages; page names are 1..NumPages, ordered like "A" < "B" < ...
NumPages == 4

Pages == 1..NumPages

\* Length of the page lists handed to applyOrdering, besides the lists of all pages
MaxWords == 2

\* Nesting depth of the AndSearchNode trees handed to the node interface
MaxDepth == 2

-----------------------------------------------------------------------------
(* Strings *)

Min(S) == CHOOSE x \in S : \A y \in S : x <= y

\* text.find(sub, start) of Python: lowest index >= start, or -1
Find(text, sub, start) ==
    LET cands == {p \in start..(Len(text) - Len(sub)) :
                     SubSeq(text, p + 1, p + Len(sub)) = sub}
    IN IF cands = {} THEN -1 ELSE Min(cands)

\* unicode.lower for the letters A-Z
Lower(c) == IF c >= 65 /\ c <= 90 THEN c + 32 ELSE c

LowerStr(s) == [i \in 1..Len(s) |-> Lower(s[i])]

\* \w under re.UNICODE, for the characters used: letters, digits, underscore
IsAlnum(c) == \/ (c >= 48 /\ c <= 57)
              \/ (c >= 65 /\ c <= 90)
              \/ (c >= 97 /\ c <= 122)
              \/ c >= 128

IsWordChar(c) == IsAlnum(c) \/ c = 95

RECURSIVE Escape(_)
\* re.escape: a backslash before every non-alphanumeric character
Escape(s) ==
    IF s = <<>> THEN <<>>
    ELSE (IF IsAlnum(Head(s)) /\ Head(s) < 128 THEN <<Head(s)>> ELSE <<92, Head(s)>>)
         \o Escape(Tail(s))

RECURSIVE Split(_, _)
\* str.split(sep): the segments between the non-overlapping occurrences of sep
Split(s, sep) ==
    LET p == Find(s, sep, 0)
    IN IF p = -1 THEN <<s>>
       ELSE <<SubSeq(s, 1, p)>> \o Split(SubSeq(s, p + Len(sep) + 1, Len(s)), sep)

\* list.sort() on page names
RECURSIVE SortSet(_)
SortSet(S) == IF S = {} THEN <<>> ELSE <<Min(S)>> \o SortSet(S \ {Min(S)})

RECURSIVE Insert(_, _)
Insert(x, sorted) ==
    IF sorted = <<>> THEN <<x>>
    ELSE IF x <= Head(sorted) THEN <<x>> \o sorted
    ELSE <<Head(sorted)>> \o Insert(x, Tail(sorted))

RECURSIVE Sort(_)
Sort(s) == IF s = <<>> THEN <<>> ELSE Insert(Head(s), Sort(Tail(s)))

Range(s) == {s[i] : i \in 1..Len(s)}

-----------------------------------------------------------------------------
(* The wiki (the wikiData collaborator) *)

\* A wiki: for every page the sequence of its child pages, in traversal order
WikiA == [p \in Pages |-> IF p = 3 THEN <<1>> ELSE <<>>]

WikiB == [p \in Pages |-> IF p = 1 THEN <<3, 2>> ELSE IF p = 3 THEN <<4>> ELSE <<>>]

Wikis == {WikiA, WikiB}

RECURSIVE Collect(_, _, _, _)
RECURSIVE CollectAll(_, _, _, _)
\* pre-order walk below page, at most depth levels deep (depth -1: no limit)
Collect(wikiData, page, depth, acc) ==
    IF page \in Range(acc) THEN acc
    ELSE IF depth = 0 THEN acc \o <<page>>
    ELSE CollectAll(wikiData, wikiData[page],
                    IF depth = -1 THEN -1 ELSE depth - 1, acc \o <<page>>)

CollectAll(wikiData, pages, depth, acc) ==
    IF pages = <<>> THEN acc
    ELSE CollectAll(wikiData, Tail(pages), depth, Collect(wikiData, Head(pages), depth, acc))

\* wikiData.getAllSubWords: the root and the pages below it, to the given level
GetAllSubWords(wikiData, rootWord, level) == Collect(wikiData, rootWord, level, <<>>)

-----------------------------------------------------------------------------
(* Search nodes *)

IsExc(v) == v \in {"TypeError", "AssertionError", "AttributeError"}

NoneTree == [kind |-> "None"]

NoneList == [none |-> TRUE]

AllPagesNode == [kind |-> "AllPages"]

SubTreePagesNode(rootWord, level) ==
    [kind |-> "SubTreePages", rootWord |-> rootWord, level |-> level, wordList |-> NoneList]

AbstractContentSearchNode == [kind |-> "AbstractContent"]

SimpleStrNode(subStr) == [kind |-> "SimpleStr", subStr |-> subStr]

\* rePattern: the pattern source and whether re.IGNORECASE is among the flags
RegexTextNode(pattern, ignoreCase) ==
    [kind |-> "RegexText", pattern |-> pattern, ignoreCase |-> ignoreCase]

AndSearchNode(left, right) == [kind |-> "And", left |-> left, right |-> right]

\* the call of the collaborator made by SubTreePagesNode.beginWikiSearch:
\* getAllSubWords(self.rootWord), the level is not passed on
SubTreeFetch(wikiData, n) == GetAllSubWords(wikiData, n.rootWord, -1)

RECURSIVE NodeBeginWikiSearch(_, _)
\* node.beginWikiSearch(wikiData)
NodeBeginWikiSearch(n, wikiData) ==
    IF n.kind = "And"
    THEN [n EXCEPT !.left = NodeBeginWikiSearch(n.left, wikiData),
                   !.right = NodeBeginWikiSearch(n.right, wikiData)]
    ELSE IF n.kind = "SubTreePages"
    THEN [n EXCEPT !.wordList = [none |-> FALSE, words |-> SubTreeFetch(wikiData, n)]]
    ELSE n

RECURSIVE NodeEndWikiSearch(_)
\* endWikiSearch of an AndSearchNode that forgets its right child
NodeEndWikiSearch_LeftOnly(n) ==
    IF n.kind = "And"
    THEN [n EXCEPT !.left = NodeEndWikiSearch(n.left)]
    ELSE IF n.kind = "SubTreePages"
    THEN [n EXCEPT !.wordList = NoneList]
    ELSE n

\* node.endWikiSearch()
NodeEndWikiSearch(n) ==
    IF n.kind = "And"
    THEN [n EXCEPT !.left = NodeEndWikiSearch(n.left),
                   !.right = NodeEndWikiSearch(n.right)]
    ELSE IF n.kind = "SubTreePages"
    THEN [n EXCEPT !.wordList = NoneList]
    ELSE n

Bool(b) == IF b THEN "True" ELSE "False"

\* the paths of a child's evaluated nodes, seen from the parent
Under(side, ev) == [i \in 1..Len(ev) |-> <<side>> \o ev[i]]

Here == << <<>> >>

\* The literal a pattern built by _buildSearchCriterion matches: the pattern
\* without its \b anchors and with the escapes of re.escape undone
RECURSIVE Unescape(_)
Unescape(p) ==
    IF p = <<>> THEN <<>>
    ELSE IF Head(p) = 92 /\ Len(p) >= 2 THEN <<p[2]>> \o Unescape(Tail(Tail(p)))
    ELSE <<Head(p)>> \o Unescape(Tail(p))

HasWordBounds(p) ==
    /\ Len(p) >= 4
    /\ SubSeq(p, 1, 2) = <<92, 98>>
    /\ SubSeq(p, Len(p) - 1, Len(p)) = <<92, 98>>

PatternLiteral(p) ==
    Unescape(IF HasWordBounds(p) THEN SubSeq(p, 3, Len(p) - 2) ELSE p)

\* \b at position i of text (0-based, between text[i] and text[i+1] 1-based)
AtWordBound(text, i) ==
    LET before == i >= 1 /\ IsWordChar(text[i])
        after == i < Len(text) /\ IsWordChar(text[i + 1])
    IN before # after

\* does the pattern of regex node n match text at position p (0-based)
RegexMatchesAt(n, text, p) ==
    LET lit == PatternLiteral(n.pattern)
        part == SubSeq(text, p + 1, p + Len(lit))
    IN /\ p + Len(lit) <= Len(text)
       /\ IF n.ignoreCase THEN LowerStr(part) = LowerStr(lit) ELSE part = lit
       /\ HasWordBounds(n.pattern) =>
              AtWordBound(text, p) /\ AtWordBound(text, p + Len(lit))

\* rePattern.search(text, pos, len(text)): the start of the first match, or -1
RegexSearch(n, text, pos) ==
    LET cands == {p \in pos..Len(text) : RegexMatchesAt(n, text, p)}
    IN IF cands = {} THEN -1 ELSE Min(cands)

RECURSIVE TestText(_, _)
\* testText that evaluates the right child although the left one returned False
AndTestText_NoShortCircuit(n, text) ==
    LET l == TestText(n.left, text)
        r == TestText(n.right, text)
        ev == Under("L", l.ev) \o Under("R", r.ev) IN
    IF IsExc(l.val) THEN [val |-> l.val, ev |-> Under("L", l.ev)]
    ELSE IF IsExc(r.val) THEN [val |-> r.val, ev |-> ev]
    ELSE IF l.val = "False" \/ r.val = "False" THEN [val |-> "False", ev |-> ev]
    ELSE IF l.val = "True" /\ r.val = "True" THEN [val |-> "True", ev |-> ev]
    ELSE [val |-> "Unknown", ev |-> ev]

\* AndSearchNode.testText
AndTestText(n, text) ==
    LET l == TestText(n.left, text) IN
    IF IsExc(l.val) \/ l.val = "False"
    THEN [val |-> l.val, ev |-> Under("L", l.ev)]
    ELSE LET r == TestText(n.right, text)
             ev == Under("L", l.ev) \o Under("R", r.ev) IN
         IF IsExc(r.val) \/ r.val = "False" THEN [val |-> r.val, ev |-> ev]
         ELSE IF l.val = "True" /\ r.val = "True" THEN [val |-> "True", ev |-> ev]
         ELSE [val |-> "Unknown", ev |-> ev]

\* node.testText(text): [val: the truth value or exception, ev: the leaves evaluated]
TestText(n, text) ==
    IF n.kind = "And" THEN AndTestText(n, text)
    ELSE IF n.kind = "SimpleStr"
    THEN [val |-> Bool(Find(text, n.subStr, 0) # -1), ev |-> Here]
    ELSE IF n.kind = "RegexText"
    THEN [val |-> Bool(RegexSearch(n, text, 0) # -1), ev |-> Here]
    ELSE IF n.kind = "AbstractContent"
    THEN [val |-> "Unknown", ev |-> Here]
    ELSE \* AllPagesNode, SubTreePagesNode: AbstractSearchNode.testText, assert 0
         [val |-> "AssertionError", ev |-> Here]

RECURSIVE TestPage(_, _, _)
\* AndSearchNode.testPage: rightret is taken from self.left
AndTestPage(n, word, text) ==
    LET l == TestPage(n.left, word, text) IN
    IF IsExc(l.val) \/ l.val = "False"
    THEN [val |-> l.val, ev |-> Under("L", l.ev)]
    ELSE LET r == TestPage(n.left, word, text)
             ev == Under("L", l.ev) \o Under("L", r.ev) IN
         IF IsExc(r.val) \/ r.val = "False" THEN [val |-> r.val, ev |-> ev]
         ELSE IF l.val = "True" /\ r.val = "True" THEN [val |-> "True", ev |-> ev]
         ELSE [val |-> "Unknown", ev |-> ev]

\* SubTreePagesNode.testPage: word in self.wordList
SubTreeTestPage(n, word) ==
    IF n.wordList.none THEN [val |-> "TypeError", ev |-> Here]
    ELSE [val |-> Bool(word \in Range(n.wordList.words)), ev |-> Here]

\* node.testPage(word, text)
TestPage(n, word, text) ==
    IF n.kind = "And" THEN AndTestPage(n, word, text)
    ELSE IF n.kind = "AllPages" THEN [val |-> "True", ev |-> Here]
    ELSE IF n.kind = "SubTreePages" THEN SubTreeTestPage(n, word)
    ELSE TestText(n, text)

RECURSIVE WalkWordList(_, _, _)
\* the loop of SubTreePagesNode.orderNatural over self.wordList
WalkWordList(words, wordSet, result) ==
    IF words = <<>> THEN [raised |-> "", val |-> result, wordSet |-> wordSet]
    ELSE IF Head(words) \in wordSet
    THEN WalkWordList(Tail(words), wordSet \ {Head(words)}, result \o <<Head(words)>>)
    ELSE WalkWordList(Tail(words), wordSet, result)

\* SubTreePagesNode.orderNatural: iterating over None raises TypeError
SubTreeOrderNatural(n, wordSet) ==
    IF n.wordList.none
    THEN [raised |-> "TypeError", val |-> <<>>, wordSet |-> wordSet, ev |-> Here]
    ELSE LET w == WalkWordList(n.wordList.words, wordSet, <<>>)
         IN [raised |-> w.raised, val |-> w.val, wordSet |-> w.wordSet, ev |-> Here]

RECURSIVE OrderNatural(_, _)
\* orderNatural that asks the right child although no word is left
AndOrderNatural_AlwaysRight(n, wordSet) ==
    LET l == OrderNatural(n.left, wordSet) IN
    IF l.raised # "" THEN [l EXCEPT !.ev = Under("L", l.ev)]
    ELSE LET r == OrderNatural(n.right, l.wordSet)
             ev == Under("L", l.ev) \o Under("R", r.ev) IN
         IF r.raised # "" THEN [r EXCEPT !.ev = ev]
         ELSE [raised |-> "", val |-> l.val \o r.val, wordSet |-> r.wordSet, ev |-> ev]

\* AndSearchNode.orderNatural; ev: the leaves asked
AndOrderNatural(n, wordSet) ==
    LET l == OrderNatural(n.left, wordSet) IN
    IF l.raised # "" \/ l.wordSet = {} THEN [l EXCEPT !.ev = Under("L", l.ev)]
    ELSE LET r == OrderNatural(n.right, l.wordSet)
             ev == Under("L", l.ev) \o Under("R", r.ev) IN
         IF r.raised # "" THEN [r EXCEPT !.ev = ev]
         ELSE [raised |-> "", val |-> l.val \o r.val, wordSet |-> r.wordSet, ev |-> ev]

\* node.orderNatural(wordSet): [val: the list returned, wordSet: the set left,
\* raised: the exception raised, if any]
OrderNatural(n, wordSet) ==
    IF n.kind = "And" THEN AndOrderNatural(n, wordSet)
    ELSE IF n.kind = "SubTreePages" THEN SubTreeOrderNatural(n, wordSet)
    ELSE [raised |-> "", val |-> <<>>, wordSet |-> wordSet, ev |-> Here]

-----------------------------------------------------------------------------
(* Content nodes: searchText, matchesPart, replace *)

\* the tuple (None, None)
NotFound == [found |-> FALSE]

\* None, where a span, a match tuple or a string is returned otherwise
PyNone == [none |-> TRUE]

\* an exception leaving a call that returns a span or a string otherwise
Raised(e) == [raised |-> e]

\* searchText that does not try again from the beginning
SimpleStrSearchText_NoWrap(n, text, searchCharStartPos, cycleToStart) ==
    LET pos == Find(text, n.subStr, searchCharStartPos)
    IN IF pos = -1 THEN NotFound
       ELSE [found |-> TRUE, start |-> pos, end |-> pos + Len(n.subStr)]

\* SimpleStrNode.searchText
SimpleStrSearchText(n, text, searchCharStartPos, cycleToStart) ==
    LET pos == Find(text, n.subStr, searchCharStartPos)
        pos2 == IF pos = -1 /\ searchCharStartPos # 0 /\ cycleToStart
                THEN Find(text, n.subStr, 0) ELSE pos
    IN IF pos2 = -1 THEN NotFound
       ELSE [found |-> TRUE, start |-> pos2, end |-> pos2 + Len(n.subStr)]

\* RegexTextNode.searchText: the span and the match object (its matched text)
RegexSearchText(n, text, searchCharStartPos, cycleToStart) ==
    LET pos == RegexSearch(n, text, searchCharStartPos)
        pos2 == IF pos = -1 /\ searchCharStartPos # 0 /\ cycleToStart
                THEN RegexSearch(n, text, 0) ELSE pos
        len == Len(PatternLiteral(n.pattern))
    IN IF pos2 = -1 THEN NotFound
       ELSE [found |-> TRUE, start |-> pos2, end |-> pos2 + len,
             match |-> SubSeq(text, pos2 + 1, pos2 + len)]

\* node.searchText(text, searchCharStartPos, cycleToStart) as the operation calls it;
\* AndSearchNode has no such method
NodeSearchText(n, text, searchCharStartPos, cycleToStart) ==
    IF n.kind = "SimpleStr"
    THEN [val |-> SimpleStrSearchText(n, text, searchCharStartPos, cycleToStart), ev |-> Here]
    ELSE IF n.kind = "RegexText"
    THEN [val |-> RegexSearchText(n, text, searchCharStartPos, cycleToStart), ev |-> Here]
    ELSE [val |-> Raised("AttributeError"), ev |-> <<>>]

\* node.matchesPart(toReplace)
NodeMatchesPart(n, toReplace) ==
    IF n.kind = "SimpleStr"
    THEN [val |-> IF n.subStr = toReplace
                  THEN [found |-> TRUE, start |-> 0, end |-> Len(toReplace)]
                  ELSE PyNone,
          ev |-> Here]
    ELSE IF n.kind = "RegexText"
    THEN [val |-> IF RegexMatchesAt(n, toReplace, 0)
                  THEN [found |-> TRUE, start |-> 0, end |-> Len(toReplace),
                        match |-> SubSeq(toReplace, 1, Len(PatternLiteral(n.pattern)))]
                  ELSE PyNone,
          ev |-> Here]
    ELSE [val |-> Raised("AttributeError"), ev |-> <<>>]

\* node.replace(text, foundData, pattern); the replace strings used hold no
\* group reference, so match.expand(pattern) is the pattern
NodeReplace(n, text, foundData, pattern) ==
    IF n.kind \in {"SimpleStr", "RegexText"}
    THEN [val |-> [text |-> pattern], ev |-> Here]
    ELSE [val |-> Raised("AttributeError"), ev |-> <<>>]

-----------------------------------------------------------------------------
(* SearchReplaceOperation: settings and the search tree built from them *)

NoWiki == [none |-> TRUE]

\* the values of wildCard: 'regex' and 'no'
WcRegex == <<114, 101, 103, 101, 120>>

WcNo == <<110, 111>>

\* SearchReplaceOperation.__init__
SarInit ==
    [searchStr |-> <<>>, replaceStr |-> <<>>, replaceOp |-> FALSE,
     wholeWord |-> FALSE, caseSensitive |-> FALSE, cycleToStart |-> FALSE,
     booleanOp |-> FALSE, wildCard |-> WcRegex, wikiWide |-> FALSE,
     title |-> "None", ordering |-> "no",
     searchOpTree |-> NoneTree, wikiData |-> NoWiki]

\* SearchReplaceOperation.reNeeded
ReNeeded(op) == op.wildCard # WcNo \/ op.wholeWord \/ ~op.caseSensitive

\* SearchReplaceOperation._buildSearchCriterion
BuildSearchCriterion(op, searchStr) ==
    IF ~ReNeeded(op) THEN SimpleStrNode(searchStr)
    ELSE LET s1 == IF op.wildCard = WcNo THEN Escape(searchStr) ELSE searchStr
             s2 == IF op.wholeWord THEN <<92, 98>> \o s1 \o <<92, 98>> ELSE s1
         IN RegexTextNode(s2, ~op.caseSensitive)

\* the separator u' and '
AndSep == <<32, 97, 110, 100, 32>>

RECURSIVE FoldAnd_NodeOnLeft(_, _, _, _)
\* the loop with the tree built so far as the left child
FoldAnd_NodeOnLeft(op, andPatterns, i, n) ==
    IF i < 1 THEN n
    ELSE FoldAnd_NodeOnLeft(op, andPatterns, i - 1,
                            AndSearchNode(n, BuildSearchCriterion(op, andPatterns[i])))

RECURSIVE FoldAnd(_, _, _, _)
\* the loop "for i in xrange(len(andPatterns) - 3, -1, -1)" (i is 1-based here)
FoldAnd(op, andPatterns, i, n) ==
    IF i < 1 THEN n
    ELSE FoldAnd(op, andPatterns, i - 1,
                 AndSearchNode(BuildSearchCriterion(op, andPatterns[i]), n))

\* SearchReplaceOperation.rebuildSearchOpTree: the tree it stores in searchOpTree
RebuildSearchOpTree(op) ==
    IF ~op.booleanOp THEN BuildSearchCriterion(op, op.searchStr)
    ELSE LET andPatterns == Split(op.searchStr, AndSep)
             len == Len(andPatterns)
         IN IF len = 1 THEN BuildSearchCriterion(op, op.searchStr)
            ELSE FoldAnd(op, andPatterns, len - 2,
                         AndSearchNode(BuildSearchCriterion(op, andPatterns[len - 1]),
                                       BuildSearchCriterion(op, andPatterns[len])))

\* "if self.searchOpTree is None: self.rebuildSearchOpTree()"
EnsureTree(op) ==
    IF op.searchOpTree = NoneTree
    THEN [op EXCEPT !.searchOpTree = RebuildSearchOpTree(op)]
    ELSE op

\* clearCache that leaves the cached tree in place
ClearCache_KeepsTree(op) == op

\* SearchReplaceOperation.clearCache
ClearCache(op) == [op EXCEPT !.searchOpTree = NoneTree]

-----------------------------------------------------------------------------
(* StringOps.SerializeStream: the stream primitives and the UTF-8 codec *)

\* utf8Enc, for characters below U+0800
Utf8Char(c) == IF c < 128 THEN <<c>> ELSE <<192 + (c \div 64), 128 + (c % 64)>>

RECURSIVE Utf8Enc(_)
Utf8Enc(s) == IF s = <<>> THEN <<>> ELSE Utf8Char(Head(s)) \o Utf8Enc(Tail(s))

RECURSIVE Utf8Dec(_)
Utf8Dec(b) ==
    IF b = <<>> THEN <<>>
    ELSE IF Head(b) < 128 \/ Len(b) < 2 THEN <<Head(b)>> \o Utf8Dec(Tail(b))
    ELSE <<(Head(b) - 192) * 64 + (b[2] - 128)>> \o Utf8Dec(Tail(Tail(b)))

\* serUint32 writing: four bytes, most significant first
WriteUint32(v) ==
    <<(v \div 16777216) % 256, (v \div 65536) % 256, (v \div 256) % 256, v % 256>>

\* serUint32 reading: the value and the bytes after it
ReadUint32(b) ==
    [val |-> ((b[1] * 256 + b[2]) * 256 + b[3]) * 256 + b[4],
     rest |-> SubSeq(b, 5, Len(b))]

\* serString: the length, then the bytes
WriteString(s) == WriteUint32(Len(s)) \o s

ReadString(b) ==
    LET n == ReadUint32(b)
    IN [val |-> SubSeq(n.rest, 1, n.val), rest |-> SubSeq(n.rest, n.val + 1, Len(n.rest))]

\* serUniUtf8
WriteUniUtf8(s) == WriteString(Utf8Enc(s))

ReadUniUtf8(b) == LET r == ReadString(b) IN [val |-> Utf8Dec(r.val), rest |-> r.rest]

\* serBool: one byte
WriteBool(v) == IF v THEN <<1>> ELSE <<0>>

ReadBool(b) == [val |-> Head(b) # 0, rest |-> Tail(b)]

-----------------------------------------------------------------------------
(* SearchReplaceOperation: serializeBin, getPackedSettings, setPackedSettings *)

\* SearchReplaceOperation.serializeBin on a stream in write mode: the bytes written
SerializeBinWrite(op) ==
    WriteUint32(0) \o WriteUniUtf8(op.searchStr) \o WriteUniUtf8(op.replaceStr)
    \o WriteBool(op.replaceOp) \o WriteBool(op.wholeWord) \o WriteBool(op.caseSensitive)
    \o WriteBool(op.cycleToStart) \o WriteBool(op.booleanOp) \o WriteString(op.wildCard)

\* SearchReplaceOperation.serializeBin on a stream in read mode: the operation after
\* it and how the call ended ("return": it returned normally); a version other
\* than 0 makes it return at once
SerializeBinRead(op, data) ==
    LET version == ReadUint32(data) IN
    IF version.val # 0 THEN [op |-> op, ended |-> "return"]
    ELSE LET f1 == ReadUniUtf8(version.rest)
             f2 == ReadUniUtf8(f1.rest)
             f3 == ReadBool(f2.rest)
             f4 == ReadBool(f3.rest)
             f5 == ReadBool(f4.rest)
             f6 == ReadBool(f5.rest)
             f7 == ReadBool(f6.rest)
             f8 == ReadString(f7.rest)
         IN [op |-> [op EXCEPT !.searchStr = f1.val, !.replaceStr = f2.val,
                               !.replaceOp = f3.val, !.wholeWord = f4.val,
                               !.caseSensitive = f5.val, !.cycleToStart = f6.val,
                               !.booleanOp = f7.val, !.wildCard = f8.val],
             ended |-> "return"]

\* SearchReplaceOperation.getPackedSettings
GetPackedSettings(op) == SerializeBinWrite(op)

\* SearchReplaceOperation.setPackedSettings
SetPackedSettings(op, data) ==
    LET r == SerializeBinRead(op, data)
    IN [op |-> ClearCache(r.op), ended |-> r.ended]

\* AllPagesNode.serializeBin, SubTreePagesNode.serializeBin in write mode
NodeSerializeBinWrite(n) == WriteUint32(0)

\* AllPagesNode.serializeBin, SubTreePagesNode.serializeBin in read mode: the node
\* after it and how the call ended ("return": it returned normally)
NodeSerializeBinRead(n, data) ==
    LET version == ReadUint32(data) IN
    IF version.val # 0 THEN [node |-> n, ended |-> "return"]
    ELSE [node |-> n, ended |-> "return"]

-----------------------------------------------------------------------------
(* Inputs *)

\* search strings: "" (the initial one) and "a and b"
SearchStrs == {<<>>, <<97, 32, 97, 110, 100, 32, 98>>}

\* page texts: "a and b", "B a"
Texts == {<<97, 32, 97, 110, 100, 32, 98>>, <<66, 32, 97>>}

\* the settings a caller assigns directly (the attributes are public), and the
\* values assigned; replaceStr, cycleToStart and wildCard change with the packed
\* settings loaded
SettingValues ==
    [searchStr |-> SearchStrs, replaceOp |-> BOOLEAN, wholeWord |-> BOOLEAN,
     caseSensitive |-> BOOLEAN, booleanOp |-> BOOLEAN]

\* packed settings as stored in the database: of a simple case-sensitive search for
\* "a and b", and of a boolean whole-word search for "a and b" with a replacement
PackedSaved ==
    {GetPackedSettings([SarInit EXCEPT !.searchStr = <<97, 32, 97, 110, 100, 32, 98>>,
                                       !.caseSensitive = TRUE, !.wildCard = WcNo]),
     GetPackedSettings([SarInit EXCEPT !.searchStr = <<97, 32, 97, 110, 100, 32, 98>>,
                                       !.replaceStr = <<99>>, !.replaceOp = TRUE,
                                       !.wholeWord = TRUE, !.cycleToStart = TRUE,
                                       !.booleanOp = TRUE])}

\* the same bytes with the version tag v
WithVersion(data, v) == WriteUint32(v) \o SubSeq(data, 5, Len(data))

-----------------------------------------------------------------------------
(* SearchReplaceOperation: the operations *)

\* ListPagesOperation.__init__; searchOpTree refers to the node tree trees[1], the
\* AllPagesNode it creates (0 stands for None)
LpInit == [searchOpTree |-> 1, ordering |-> "no", wikiData |-> NoWiki]

Init ==
    /\ sar = SarInit
    /\ lp = LpInit
    /\ trees = <<AllPagesNode>>
    /\ node = NoneTree
    /\ src = SarInit
    /\ stream = <<>>
    /\ ret = [op |-> "init"]

\* a caller assigns a setting: sarOp.<name> = value
SarAssign ==
    /\ \E f \in DOMAIN SettingValues : \E v \in SettingValues[f] :
           sar' = [sar EXCEPT ![f] = v]
    /\ ret' = [op |-> "assign"]
    /\ UNCHANGED <<lp, trees, node, src, stream>>

SarClearCache ==
    /\ sar' = ClearCache(sar)
    /\ ret' = [op |-> "clearCache"]
    /\ UNCHANGED <<lp, trees, node, src, stream>>

SarSetPackedSettings ==
    /\ \E data \in PackedSaved, v \in 0..1 :
           LET r == SetPackedSettings(sar, WithVersion(data, v)) IN
           /\ sar' = r.op
           /\ ret' = [op |-> "setPackedSettings", version |-> v, ended |-> r.ended]
    /\ UNCHANGED <<lp, trees, node, src, stream>>

\* serializeBin called with a stream in read mode
SarSerializeBinRead ==
    /\ \E data \in PackedSaved, v \in 0..1 :
           LET r == SerializeBinRead(sar, WithVersion(data, v)) IN
           /\ sar' = r.op
           /\ ret' = [op |-> "serializeBin", version |-> v, ended |-> r.ended]
    /\ UNCHANGED <<lp, trees, node, src, stream>>

\* searchText without the test of booleanOp
SearchText_NoModeTest(op0, text, searchCharStartPos) ==
    LET op == EnsureTree(op0)
        r == NodeSearchText(op.searchOpTree, text, searchCharStartPos, op.cycleToStart)
    IN [sar |-> op, val |-> r.val, ev |-> r.ev, used |-> op.searchOpTree]

\* SearchReplaceOperation.searchText: [sar: the operation after the call, val: what
\* it returns, ev: the nodes evaluated, used: the tree evaluated]
SearchText(op0, text, searchCharStartPos) ==
    IF op0.booleanOp
    THEN [sar |-> op0, val |-> NotFound, ev |-> <<>>, used |-> NoneTree]
    ELSE LET op == EnsureTree(op0)
             r == NodeSearchText(op.searchOpTree, text, searchCharStartPos, op.cycleToStart)
         IN [sar |-> op, val |-> r.val, ev |-> r.ev, used |-> op.searchOpTree]

\* SearchReplaceOperation.matchesPart
MatchesPart(op0, toReplace) ==
    IF op0.booleanOp
    THEN [sar |-> op0, val |-> PyNone, ev |-> <<>>, used |-> NoneTree]
    ELSE LET op == EnsureTree(op0)
             r == NodeMatchesPart(op.searchOpTree, toReplace)
         IN [sar |-> op, val |-> r.val, ev |-> r.ev, used |-> op.searchOpTree]

\* SearchReplaceOperation.replace
Replace(op0, text, foundData) ==
    IF op0.booleanOp \/ ~op0.replaceOp
    THEN [sar |-> op0, val |-> PyNone, ev |-> <<>>, used |-> NoneTree]
    ELSE LET op == EnsureTree(op0)
             r == NodeReplace(op.searchOpTree, text, foundData, op.replaceStr)
         IN [sar |-> op, val |-> r.val, ev |-> r.ev, used |-> op.searchOpTree]

\* SearchReplaceOperation.beginWikiSearch
BeginWikiSearch(op0, wikiData) ==
    LET op == EnsureTree([op0 EXCEPT !.wikiData = [none |-> FALSE, wiki |-> wikiData]])
    IN [sar |-> [op EXCEPT !.searchOpTree = NodeBeginWikiSearch(op.searchOpTree, wikiData)],
        ev |-> <<>>, used |-> op.searchOpTree]

\* SearchReplaceOperation.endWikiSearch
EndWikiSearch(op0) ==
    LET op == EnsureTree(op0)
    IN [sar |-> [op EXCEPT !.searchOpTree = NodeEndWikiSearch(op.searchOpTree),
                           !.wikiData = NoWiki],
        ev |-> <<>>, used |-> op.searchOpTree]

\* SearchReplaceOperation.testPage
SarTestPageOp(op0, word, text) ==
    LET op == EnsureTree(op0)
        r == TestPage(op.searchOpTree, word, text)
    IN [sar |-> op, val |-> r.val, ev |-> r.ev, used |-> op.searchOpTree]

\* SearchReplaceOperation.orderNatural
SarOrderNaturalOp(op0, words) ==
    LET op == EnsureTree(op0)
        r == OrderNatural(op.searchOpTree, Range(words))
    IN [sar |-> op, raised |-> r.raised, val |-> r.val \o SortSet(r.wordSet),
        ev |-> <<>>, used |-> op.searchOpTree]

SarSearchText ==
    /\ \E text \in Texts, pos \in {0, 3} :
           LET r == SearchText(sar, text, pos) IN
           /\ sar' = r.sar
           /\ ret' = [op |-> "searchText", val |-> r.val, ev |-> r.ev, used |-> r.used]
    /\ UNCHANGED <<lp, trees, node, src, stream>>

SarMatchesPart ==
    /\ \E toReplace \in SearchStrs \cup {<<97>>} :
           LET r == MatchesPart(sar, toReplace) IN
           /\ sar' = r.sar
           /\ ret' = [op |-> "matchesPart", val |-> r.val, ev |-> r.ev, used |-> r.used]
    /\ UNCHANGED <<lp, trees, node, src, stream>>

\* replace is called with what searchText returned for text
SarReplace ==
    /\ \E text \in {<<66, 32, 97>>} :
           LET found == NodeSearchText(EnsureTree(sar).searchOpTree, text, 0, FALSE)
               r == Replace(sar, text, found.val) IN
           /\ sar' = r.sar
           /\ ret' = [op |-> "replace", val |-> r.val, ev |-> r.ev, used |-> r.used]
    /\ UNCHANGED <<lp, trees, node, src, stream>>

SarBeginWikiSearch ==
    /\ \E wikiData \in {WikiA} :
           LET r == BeginWikiSearch(sar, wikiData) IN
           /\ sar' = r.sar
           /\ ret' = [op |-> "beginWikiSearch", ev |-> r.ev, used |-> r.used]
    /\ UNCHANGED <<lp, trees, node, src, stream>>

SarEndWikiSearch ==
    /\ LET r == EndWikiSearch(sar) IN
           /\ sar' = r.sar
           /\ ret' = [op |-> "endWikiSearch", ev |-> r.ev, used |-> r.used]
    /\ UNCHANGED <<lp, trees, node, src, stream>>

SarTestPage ==
    /\ \E word \in {1}, text \in Texts :
           LET r == SarTestPageOp(sar, word, text) IN
           /\ sar' = r.sar
           /\ ret' = [op |-> "testPage", val |-> r.val, ev |-> r.ev, used |-> r.used]
    /\ UNCHANGED <<lp, trees, node, src, stream>>

SarOrderNatural ==
    /\ \E words \in {<<3, 1, 2>>} :
           LET r == SarOrderNaturalOp(sar, words) IN
           /\ sar' = r.sar
           /\ ret' = [op |-> "orderNatural", val |-> r.val, ev |-> r.ev, used |-> r.used]
    /\ UNCHANGED <<lp, trees, node, src, stream>>

Next ==
    \/ SarAssign
    \/ SarClearCache
    \/ SarSetPackedSettings
    \/ SarSerializeBinRead
    \/ SarSearchText
    \/ SarMatchesPart
    \/ SarReplace
    \/ SarBeginWikiSearch
    \/ SarEndWikiSearch
    \/ SarTestPage
    \/ SarOrderNatural

Spec == Init /\ [][Next]_vars

-----------------------------------------------------------------------------
(* ListPagesOperation (specification SpecList) *)

\* the tree the operation refers to
LpTree(op, ts) == IF op.searchOpTree = 0 THEN NoneTree ELSE ts[op.searchOpTree]

\* ListPagesOperation.setSearchOpTree
SetSearchOpTree(op, ref) == [op EXCEPT !.searchOpTree = ref]

\* ListPagesOperation.beginWikiSearch: the operation and the node trees after it
LpBeginWikiSearchOp(op, ts, wikiData) ==
    [lp |-> [op EXCEPT !.wikiData = [none |-> FALSE, wiki |-> wikiData]],
     trees |-> IF op.searchOpTree = 0 THEN ts
               ELSE [ts EXCEPT ![op.searchOpTree] = NodeBeginWikiSearch(@, wikiData)]]

\* ListPagesOperation.endWikiSearch
LpEndWikiSearchOp(op, ts) ==
    [lp |-> [op EXCEPT !.wikiData = NoWiki],
     trees |-> IF op.searchOpTree = 0 THEN ts
               ELSE [ts EXCEPT ![op.searchOpTree] = NodeEndWikiSearch(@)]]

\* ListPagesOperation.testPage
LpTestPageOp(op, ts, word, text) ==
    IF op.searchOpTree = 0 THEN [val |-> "False", ev |-> <<>>]
    ELSE TestPage(LpTree(op, ts), word, text)

\* orderNatural that appends the unclaimed pages as they come, unsorted
LpOrderNaturalOp_RemainUnsorted(op, ts, words) ==
    IF op.searchOpTree = 0 THEN [raised |-> "", val |-> Sort(words)]
    ELSE LET r == OrderNatural(LpTree(op, ts), Range(words))
         IN [raised |-> r.raised,
             val |-> r.val \o SelectSeq(words, LAMBDA w : w \in r.wordSet)]

\* ListPagesOperation.orderNatural
LpOrderNaturalOp(op, ts, words) ==
    IF op.searchOpTree = 0 THEN [raised |-> "", val |-> Sort(words)]
    ELSE LET r == OrderNatural(LpTree(op, ts), Range(words))
         IN [raised |-> r.raised, val |-> r.val \o SortSet(r.wordSet)]

\* ListPagesOperation.applyOrdering
LpApplyOrderingOp(op, ts, words) ==
    IF op.ordering = "no" THEN [raised |-> "", val |-> words]
    ELSE IF op.ordering = "ascending" THEN [raised |-> "", val |-> Sort(words)]
    ELSE IF op.ordering = "natural" THEN LpOrderNaturalOp(op, ts, words)
    ELSE [raised |-> "", val |-> words]

\* SearchReplaceOperation.applyOrdering
SarApplyOrderingOp(op, words) ==
    IF op.ordering = "no" THEN [sar |-> op, raised |-> "", val |-> words]
    ELSE IF op.ordering = "ascending" THEN [sar |-> op, raised |-> "", val |-> Sort(words)]
    ELSE IF op.ordering = "natural"
    THEN LET r == SarOrderNaturalOp(op, words)
         IN [sar |-> r.sar, raised |-> r.raised, val |-> r.val]
    ELSE [sar |-> op, raised |-> "", val |-> words]

Orderings == {"no", "ascending", "natural"}

RECURSIVE SeqsUpTo(_)
\* the sequences of at most k pages
SeqsUpTo(k) ==
    IF k = 0 THEN {<<>>}
    ELSE LET shorter == SeqsUpTo(k - 1)
         IN shorter \cup {Append(w, p) : w \in {v \in shorter : Len(v) = k - 1},
                                          p \in Pages}

\* the page lists handed to applyOrdering: short lists, and all pages in ascending
\* and in descending order
WordLists ==
    {w \in SeqsUpTo(MaxWords) : Cardinality(Range(w)) = Len(w)}
    \cup {[i \in 1..NumPages |-> i], [i \in 1..NumPages |-> NumPages + 1 - i]}

\* the trees a caller of ListPagesOperation builds
ListLeaves ==
    {AllPagesNode, SubTreePagesNode(3, 0), SubTreePagesNode(1, -1), SimpleStrNode(<<97>>)}

ListTrees == ListLeaves \cup {AndSearchNode(l, r) : l \in ListLeaves, r \in ListLeaves}

InitList ==
    /\ sar = SarInit
    /\ lp = LpInit
    /\ \E t \in ListTrees : trees = <<AllPagesNode, t>>
    /\ node = NoneTree
    /\ src = SarInit
    /\ stream = <<>>
    /\ ret = [op |-> "init"]

\* the session the caller has open: begun and not yet ended
InSession == ~lp.wikiData.none

LpSetSearchOpTree ==
    /\ \E ref \in 0..Len(trees) : lp' = SetSearchOpTree(lp, ref)
    /\ ret' = [op |-> "setSearchOpTree"]
    /\ UNCHANGED <<sar, trees, node, src, stream>>

\* a caller assigns the ordering: op.ordering = value
LpSetOrdering ==
    /\ \E o \in Orderings : lp' = [lp EXCEPT !.ordering = o]
    /\ ret' = [op |-> "assign"]
    /\ UNCHANGED <<sar, trees, node, src, stream>>

LpBeginWikiSearch ==
    /\ \E wikiData \in Wikis :
           LET r == LpBeginWikiSearchOp(lp, trees, wikiData) IN
           /\ lp' = r.lp
           /\ trees' = r.trees
           /\ ret' = [op |-> "beginWikiSearch"]
    /\ UNCHANGED <<sar, node, src, stream>>

LpEndWikiSearch ==
    /\ LET r == LpEndWikiSearchOp(lp, trees) IN
           /\ lp' = r.lp
           /\ trees' = r.trees
           /\ ret' = [op |-> "endWikiSearch"]
    /\ UNCHANGED <<sar, node, src, stream>>

LpTestPage ==
    /\ \E word \in Pages, text \in Texts :
           LET r == LpTestPageOp(lp, trees, word, text) IN
           ret' = [op |-> "testPage", word |-> word, text |-> text,
                   val |-> r.val, ev |-> r.ev]
    /\ UNCHANGED <<sar, lp, trees, node, src, stream>>

LpApplyOrdering ==
    /\ \E words \in WordLists :
           LET r == LpApplyOrderingOp(lp, trees, words) IN
           ret' = [op |-> "applyOrdering", words |-> words,
                   raised |-> r.raised, val |-> r.val]
    /\ UNCHANGED <<sar, lp, trees, node, src, stream>>

NextList ==
    \/ LpSetSearchOpTree
    \/ LpSetOrdering
    \/ LpBeginWikiSearch
    \/ LpEndWikiSearch
    \/ LpTestPage
    \/ LpApplyOrdering

SpecList == InitList /\ [][NextList]_vars

-----------------------------------------------------------------------------
(* applyOrdering of both operations (specification SpecOrder) *)

\* a caller assigns the ordering of the SearchReplaceOperation
SarSetOrdering ==
    /\ \E o \in Orderings : sar' = [sar EXCEPT !.ordering = o]
    /\ ret' = [op |-> "assign"]
    /\ UNCHANGED <<lp, trees, node, src, stream>>

SarApplyOrdering ==
    /\ \E words \in WordLists :
           LET r == SarApplyOrderingOp(sar, words) IN
           /\ sar' = r.sar
           /\ ret' = [op |-> "sar.applyOrdering", words |-> words,
                      raised |-> r.raised, val |-> r.val]
    /\ UNCHANGED <<lp, trees, node, src, stream>>

\* the trees whose natural order is exercised
OrderTrees ==
    {SubTreePagesNode(3, 0), SubTreePagesNode(1, -1),
     AndSearchNode(SubTreePagesNode(3, 0), SubTreePagesNode(1, -1)),
     AndSearchNode(AllPagesNode, SubTreePagesNode(3, 0))}

InitOrder ==
    /\ sar = SarInit
    /\ lp = LpInit
    /\ \E t \in OrderTrees : trees = <<AllPagesNode, t>>
    /\ node = NoneTree
    /\ src = SarInit
    /\ stream = <<>>
    /\ ret = [op |-> "init"]

NextOrder ==
    \/ LpSetSearchOpTree
    \/ LpSetOrdering
    \/ LpBeginWikiSearch
    \/ LpEndWikiSearch
    \/ LpApplyOrdering
    \/ SarSetOrdering
    \/ SarBeginWikiSearch
    \/ SarEndWikiSearch
    \/ SarApplyOrdering

SpecOrder == InitOrder /\ [][NextOrder]_vars

-----------------------------------------------------------------------------
(* Saving and restoring the settings (specification SpecPack) *)

\* strings saved: "", "b", and one with a character outside ASCII
PackStrs == {<<>>, <<98>>, <<97, 233>>}

\* the operations whose settings are saved
PackSources ==
    {[SarInit EXCEPT !.searchStr = f.searchStr, !.replaceStr = f.replaceStr,
                     !.replaceOp = f.replaceOp, !.wholeWord = f.wholeWord,
                     !.caseSensitive = f.caseSensitive, !.cycleToStart = f.cycleToStart,
                     !.booleanOp = f.booleanOp, !.wildCard = f.wildCard,
                     !.wikiWide = f.wikiWide, !.ordering = f.ordering] :
        f \in [searchStr : PackStrs, replaceStr : {<<>>, <<98>>},
               replaceOp : BOOLEAN, wholeWord : BOOLEAN, caseSensitive : BOOLEAN,
               cycleToStart : BOOLEAN, booleanOp : BOOLEAN,
               wildCard : {WcRegex, WcNo}, wikiWide : BOOLEAN,
               ordering : {"no", "natural"}]}

\* src is the operation saved, sar a new operation the settings are restored to,
\* node a page list node read from a stream
InitPack ==
    /\ src \in PackSources
    /\ sar = SarInit
    /\ lp = LpInit
    /\ trees = <<AllPagesNode>>
    /\ node \in {AllPagesNode, SubTreePagesNode(3, 0)}
    /\ stream = <<>>
    /\ ret = [op |-> "init"]

\* src.getPackedSettings(): stream holds the bytes returned
PackGetPackedSettings ==
    /\ stream' = GetPackedSettings(src)
    /\ ret' = [op |-> "getPackedSettings"]
    /\ UNCHANGED <<sar, lp, trees, node, src>>

\* sar.setPackedSettings(data), data the bytes saved, with the version tag v
PackSetPackedSettings ==
    /\ stream # <<>>
    /\ \E v \in 0..1 :
           LET r == SetPackedSettings(sar, WithVersion(stream, v)) IN
           /\ sar' = r.op
           /\ ret' = [op |-> "setPackedSettings", version |-> v, ended |-> r.ended]
    /\ UNCHANGED <<lp, trees, node, src, stream>>

\* node.serializeBin on a stream in read mode holding what the node wrote, with the
\* version tag v
PackNodeSerializeBin ==
    /\ \E v \in 0..1 :
           LET r == NodeSerializeBinRead(node, WithVersion(NodeSerializeBinWrite(node), v)) IN
           /\ node' = r.node
           /\ ret' = [op |-> "node.serializeBin", version |-> v, ended |-> r.ended]
    /\ UNCHANGED <<sar, lp, trees, src, stream>>

NextPack ==
    \/ PackGetPackedSettings
    \/ PackSetPackedSettings
    \/ PackNodeSerializeBin

SpecPack == InitPack /\ [][NextPack]_vars

-----------------------------------------------------------------------------
(* Compiling the search string (specification SpecCompile) *)

\* search strings: "", "a", "a and b", "a and b and c", "b and a and a", "a and "
CompileStrs ==
    {<<>>, <<97>>, <<97, 32, 97, 110, 100, 32, 98>>,
     <<97, 32, 97, 110, 100, 32, 98, 32, 97, 110, 100, 32, 99>>,
     <<98, 32, 97, 110, 100, 32, 97, 32, 97, 110, 100, 32, 97>>,
     <<97, 32, 97, 110, 100, 32>>}

\* texts: "a c", "a b c", "B", "c b"
CompileTexts == {<<97, 32, 99>>, <<97, 32, 98, 32, 99>>, <<66>>, <<99, 32, 98>>}

\* an operation whose settings were assigned and whose tree is not yet compiled
InitCompile ==
    /\ \E f \in [searchStr : CompileStrs, booleanOp : BOOLEAN, wholeWord : BOOLEAN,
                 caseSensitive : BOOLEAN, wildCard : {WcRegex, WcNo}] :
           sar = [SarInit EXCEPT !.searchStr = f.searchStr, !.booleanOp = f.booleanOp,
                                 !.wholeWord = f.wholeWord,
                                 !.caseSensitive = f.caseSensitive,
                                 !.wildCard = f.wildCard]
    /\ lp = LpInit
    /\ trees = <<AllPagesNode>>
    /\ node = NoneTree
    /\ src = SarInit
    /\ stream = <<>>
    /\ ret = [op |-> "init"]

\* sar.rebuildSearchOpTree()
CompileRebuild ==
    /\ sar' = [sar EXCEPT !.searchOpTree = RebuildSearchOpTree(sar)]
    /\ ret' = [op |-> "rebuildSearchOpTree"]
    /\ UNCHANGED <<lp, trees, node, src, stream>>

\* sar.searchOpTree.testText(text) on the compiled tree
CompileTestText ==
    /\ sar.searchOpTree # NoneTree
    /\ \E text \in CompileTexts :
           LET r == TestText(sar.searchOpTree, text) IN
           ret' = [op |-> "tree.testText", text |-> text, val |-> r.val, ev |-> r.ev]
    /\ UNCHANGED <<sar, lp, trees, node, src, stream>>

NextCompile ==
    \/ CompileRebuild
    \/ CompileTestText

SpecCompile == InitCompile /\ [][NextCompile]_vars

-----------------------------------------------------------------------------
(* Searching a text for a simple string (specification SpecSearch) *)

\* strings searched for: "ab", "x", "b", ""
Needles == {<<97, 98>>, <<120>>, <<98>>, <<>>}

\* texts searched: "xxabxx", "abab", "x"
SearchTexts == {<<120, 120, 97, 98, 120, 120>>, <<97, 98, 97, 98>>, <<120>>}

\* a SimpleStrNode, and an operation whose settings compile to one (no wildcards,
\* case sensitive, no whole words)
InitSearch ==
    /\ \E subStr \in Needles, cycleToStart \in BOOLEAN :
           /\ node = SimpleStrNode(subStr)
           /\ sar = [SarInit EXCEPT !.searchStr = subStr, !.wildCard = WcNo,
                                    !.caseSensitive = TRUE,
                                    !.cycleToStart = cycleToStart]
    /\ lp = LpInit
    /\ trees = <<AllPagesNode>>
    /\ src = SarInit
    /\ stream = <<>>
    /\ ret = [op |-> "init"]

\* node.searchText(text, searchCharStartPos, cycleToStart)
SearchNodeSearchText ==
    /\ \E text \in SearchTexts, cycleToStart \in BOOLEAN :
       \E searchCharStartPos \in 0..Len(text) :
           ret' = [op |-> "node.searchText", subStr |-> node.subStr, text |-> text,
                   pos |-> searchCharStartPos, cycleToStart |-> cycleToStart,
                   val |-> SimpleStrSearchText(node, text, searchCharStartPos,
                                               cycleToStart)]
    /\ UNCHANGED <<sar, lp, trees, node, src, stream>>

\* sar.searchText(text, searchCharStartPos)
SearchSarSearchText ==
    /\ \E text \in SearchTexts :
       \E searchCharStartPos \in 0..Len(text) :
           LET r == SearchText(sar, text, searchCharStartPos) IN
           /\ sar' = r.sar
           /\ ret' = [op |-> "searchText", subStr |-> r.used.subStr, text |-> text,
                      pos |-> searchCharStartPos, cycleToStart |-> sar.cycleToStart,
                      val |-> r.val]
    /\ UNCHANGED <<lp, trees, node, src, stream>>

NextSearch ==
    \/ SearchNodeSearchText
    \/ SearchSarSearchText

SpecSearch == InitSearch /\ [][NextSearch]_vars

-----------------------------------------------------------------------------
(* The node interface used directly (specification SpecNode) *)

\* the leaves: AllPagesNode(), SubTreePagesNode(3, 0), SubTreePagesNode(1, -1),
\* SimpleStrNode("a"), SimpleStrNode("B"), AbstractContentSearchNode()
Leaves ==
    {AllPagesNode, SubTreePagesNode(3, 0), SubTreePagesNode(1, -1),
     SimpleStrNode(<<97>>), SimpleStrNode(<<66>>), AbstractContentSearchNode}

RECURSIVE NodeTrees(_)
\* the leaves and the conjunctions of a leaf with a tree, nested at most d deep
NodeTrees(d) ==
    IF d = 0 THEN Leaves
    ELSE Leaves \cup {AndSearchNode(l, t) : l \in Leaves, t \in NodeTrees(d - 1)}

InitNode ==
    /\ sar = SarInit
    /\ lp = LpInit
    /\ trees = <<AllPagesNode>>
    /\ node \in NodeTrees(MaxDepth)
    /\ src = SarInit
    /\ stream = <<>>
    /\ ret = [op |-> "init"]

NBeginWikiSearch ==
    /\ \E wikiData \in Wikis :
           /\ node' = NodeBeginWikiSearch(node, wikiData)
           /\ ret' = [op |-> "node.beginWikiSearch", wiki |-> wikiData]
    /\ UNCHANGED <<sar, lp, trees, src, stream>>

NEndWikiSearch ==
    /\ node' = NodeEndWikiSearch(node)
    /\ ret' = [op |-> "node.endWikiSearch"]
    /\ UNCHANGED <<sar, lp, trees, src, stream>>

NTestPage ==
    /\ \E word \in Pages, text \in Texts :
           LET r == TestPage(node, word, text) IN
           ret' = [op |-> "node.testPage", word |-> word, text |-> text,
                   val |-> r.val, ev |-> r.ev]
    /\ UNCHANGED <<sar, lp, trees, node, src, stream>>

NTestText ==
    /\ \E text \in Texts :
           LET r == TestText(node, text) IN
           ret' = [op |-> "node.testText", text |-> text, val |-> r.val, ev |-> r.ev]
    /\ UNCHANGED <<sar, lp, trees, node, src, stream>>

NOrderNatural ==
    /\ \E wordSet \in SUBSET Pages :
           LET r == OrderNatural(node, wordSet) IN
           ret' = [op |-> "node.orderNatural", wordSet |-> wordSet,
                   raised |-> r.raised, val |-> r.val, left |-> r.wordSet,
                   ev |-> r.ev]
    /\ UNCHANGED <<sar, lp, trees, node, src, stream>>

NextNode ==
    \/ NBeginWikiSearch
    \/ NEndWikiSearch
    \/ NTestPage
    \/ NTestText
    \/ NOrderNatural

SpecNode == InitNode /\ [][NextNode]_vars

-----------------------------------------------------------------------------
(* Claims on the SearchReplaceOperation facade (specification Spec) *)

FacadeOps == {"searchText", "matchesPart", "replace", "beginWikiSearch",
              "endWikiSearch", "testPage", "orderNatural"}

\* C1 as stated: in every reachable state the cached tree is empty or is the tree
\* compiled from the current settings, and the tree a facade call evaluated is the
\* tree compiled from the current settings.
C1_CacheNeverStale ==
    /\ sar.searchOpTree = NoneTree \/ sar.searchOpTree = RebuildSearchOpTree(sar)
    /\ (ret.op \in FacadeOps /\ ret.used # NoneTree) => ret.used = RebuildSearchOpTree(sar)

\* C1 amended: clearCache and setPackedSettings leave the cache empty; a facade call
\* that finds the cache empty and needs the tree compiles the current settings and
\* evaluates that tree; one that finds a cached tree uses it as it is; assigning a
\* setting or reading a stream with serializeBin leaves the cached tree untouched.
C1_StepOk ==
    /\ ret'.op \in {"clearCache", "setPackedSettings"} => sar'.searchOpTree = NoneTree
    /\ ret'.op \in {"assign", "serializeBin"} => sar'.searchOpTree = sar.searchOpTree
    /\ (ret'.op \in FacadeOps /\ ret'.used # NoneTree) =>
           /\ sar'.searchOpTree = ret'.used
           /\ ret'.used = IF sar.searchOpTree = NoneTree
                          THEN RebuildSearchOpTree(sar') ELSE sar.searchOpTree

C1_InvalidationIsExplicit == [][C1_StepOk]_vars

\* a testPage call evaluated a conjunction tree compiled from the current settings
\* after the cache had been emptied
C1_Witness ==
    /\ ret.op = "testPage"
    /\ ret.used.kind = "And"
    /\ ret.used = RebuildSearchOpTree(sar)

\* C6: while booleanOp is true searchText returns (None, None) and matchesPart
\* returns None, and replace returns None whenever booleanOp is true or replaceOp is
\* false; these calls raise nothing, evaluate no node and leave the operation, its
\* cached tree included, as it was.
C6_StepOk ==
    /\ (ret'.op = "searchText" /\ sar.booleanOp) =>
           ret'.val = NotFound /\ ret'.ev = <<>> /\ sar' = sar
    /\ (ret'.op = "matchesPart" /\ sar.booleanOp) =>
           ret'.val = PyNone /\ ret'.ev = <<>> /\ sar' = sar
    /\ (ret'.op = "replace" /\ (sar.booleanOp \/ ~sar.replaceOp)) =>
           ret'.val = PyNone /\ ret'.ev = <<>> /\ sar' = sar

C6_InvalidModeCalls == [][C6_StepOk]_vars

\* searchText returned (None, None) in boolean mode with a tree in the cache
C6_Witness ==
    /\ ret.op = "searchText"
    /\ sar.booleanOp
    /\ ret.val = NotFound
    /\ sar.searchOpTree # NoneTree

-----------------------------------------------------------------------------
(* Claims on the nodes (specification SpecNode) *)

TriState == {"True", "False", "Unknown"}

\* the three-valued AND of Kleene
KleeneAnd(l, r) ==
    IF l = "False" \/ r = "False" THEN "False"
    ELSE IF l = "True" /\ r = "True" THEN "True"
    ELSE "Unknown"

\* C2: AndSearchNode.testPage returns the Kleene AND of the left child's and the
\* right child's testPage results.
C2_TestPageIsKleeneAnd ==
    (ret.op = "node.testPage" /\ node.kind = "And") =>
        LET l == TestPage(node.left, ret.word, ret.text).val
            r == TestPage(node.right, ret.word, ret.text).val
        IN (l \in TriState /\ r \in TriState) => ret.val = KleeneAnd(l, r)

\* C3: AndSearchNode.testText returns the Kleene AND of its children's testText
\* results, for the nine combinations of True, False and Unknown, and does not
\* evaluate the right child when the left child returns False.
C3_TestTextIsKleeneAnd ==
    (ret.op = "node.testText" /\ node.kind = "And") =>
        LET l == TestText(node.left, ret.text)
            r == TestText(node.right, ret.text)
        IN /\ (l.val \in TriState /\ r.val \in TriState) =>
                  ret.val = KleeneAnd(l.val, r.val)
           /\ l.val = "False" => ret.val = "False" /\ ret.ev = Under("L", l.ev)
           /\ (l.val \in TriState /\ l.val # "False") =>
                  ret.ev = Under("L", l.ev) \o Under("R", r.ev)

\* the left child returned False, the right child would have returned True, and
\* only the left child was evaluated
C3_Witness ==
    /\ ret.op = "node.testText"
    /\ node.kind = "And"
    /\ TestText(node.left, ret.text).val = "False"
    /\ TestText(node.right, ret.text).val = "True"
    /\ ret.val = "False"
    /\ ret.ev = << <<"L">> >>

-----------------------------------------------------------------------------
(* Claims on ListPagesOperation (specification SpecList) *)

RECURSIVE SubTreeNodes(_)
\* the SubTreePagesNodes of a tree, those under AndSearchNodes included
SubTreeNodes(n) ==
    IF n.kind = "And" THEN SubTreeNodes(n.left) \cup SubTreeNodes(n.right)
    ELSE IF n.kind = "SubTreePages" THEN {n}
    ELSE {}

\* no SubTreePagesNode of the tree holds a word list
NoWordList(n) == \A m \in SubTreeNodes(n) : m.wordList.none

\* every SubTreePagesNode of the tree holds a word list
AllWordLists(n) == \A m \in SubTreeNodes(n) : ~m.wordList.none

\* C4: testPage outside a session (no beginWikiSearch yet, or after endWikiSearch)
\* yields a defined result and raises nothing, also on a tree with a
\* SubTreePagesNode.
C4_TestPageOutsideSessionIsDefined ==
    (ret.op = "testPage" /\ ~InSession) => ret.val \in TriState

\* C5 as stated: outside a session (before the first beginWikiSearch, after
\* endWikiSearch) no SubTreePagesNode of the operation's tree holds a word list.
C5_WordListOnlyInSession ==
    ~InSession => NoWordList(LpTree(lp, trees))

\* C5 amended: beginWikiSearch fills and endWikiSearch clears the word list of every
\* SubTreePagesNode of the tree the operation refers to at that moment, nodes under
\* AndSearchNodes included; they touch no other tree, and no other call changes a
\* word list.
C5_StepOk ==
    /\ ret'.op = "endWikiSearch" => NoWordList(LpTree(lp', trees'))
    /\ ret'.op = "beginWikiSearch" => AllWordLists(LpTree(lp', trees'))
    /\ ret'.op \in {"beginWikiSearch", "endWikiSearch"} =>
           \A i \in 1..Len(trees) : i # lp.searchOpTree => trees'[i] = trees[i]
    /\ ret'.op \notin {"beginWikiSearch", "endWikiSearch"} => trees' = trees

C5_WordListFollowsBeginEnd == [][C5_StepOk]_vars

\* endWikiSearch has cleared the operation's tree, and a tree that setSearchOpTree
\* replaced inside the session still holds its word list
C5_Witness ==
    /\ ret.op = "endWikiSearch"
    /\ lp.searchOpTree = 1
    /\ trees[2].kind = "And"
    /\ ~NoWordList(trees[2].right)

\* C8: after beginWikiSearch the word list of SubTreePagesNode(R, L) holds exactly the
\* pages at most L levels below R (L = -1: at any depth, L = 0: R only), and testPage
\* inside the session is true for exactly these pages.
C8_WordListBoundedByLevel ==
    LET t == LpTree(lp, trees) IN
    (InSession /\ t.kind = "SubTreePages" /\ ret.op \in {"beginWikiSearch", "testPage"}) =>
        LET within == Range(GetAllSubWords(lp.wikiData.wiki, t.rootWord, t.level)) IN
        /\ ~t.wordList.none => Range(t.wordList.words) = within
        /\ (ret.op = "testPage" /\ ret.val \in TriState) =>
               (ret.val = "True" <=> ret.word \in within)

-----------------------------------------------------------------------------
(* Claims on applyOrdering (specification SpecOrder) *)

Ascending(s) == \A i \in 1..(Len(s) - 1) : s[i] <= s[i + 1]

\* s is words sorted
IsSorted(s, words) ==
    Ascending(s) /\ Len(s) = Len(words) /\ Range(s) = Range(words)

\* the pages of words in the order of the list fetched
InFetchOrder(fetched, words) == SelectSeq(fetched, LAMBDA w : w \in Range(words))

\* val is what the tree's orderNatural claims of words, followed by the other pages
\* of words, sorted
IsNatural(val, words, tree) ==
    LET claimed == OrderNatural(tree, Range(words)).val
        k == Len(claimed)
        rest == SubSeq(val, k + 1, Len(val))
    IN /\ Len(val) >= k
       /\ SubSeq(val, 1, k) = claimed
       /\ Ascending(rest)
       /\ Len(rest) = Cardinality(Range(words) \ Range(claimed))
       /\ Range(rest) = Range(words) \ Range(claimed)
       /\ tree.kind = "SubTreePages" =>
              claimed = InFetchOrder(tree.wordList.words, words)

\* C7: applyOrdering(words) returns words unchanged for ordering 'no', words sorted
\* for 'ascending', and for 'natural', with the nodes of the tree in a session, what
\* the tree's orderNatural claims (for a SubTreePagesNode the claimed pages in the
\* order they were fetched) followed by the pages not claimed, sorted.
C7_ApplyOrdering ==
    /\ ret.op = "applyOrdering" =>
           LET tree == LpTree(lp, trees) IN
           /\ lp.ordering = "no" => ret.raised = "" /\ ret.val = ret.words
           /\ lp.ordering = "ascending" => ret.raised = "" /\ IsSorted(ret.val, ret.words)
           /\ (lp.ordering = "natural" /\ AllWordLists(tree)) =>
                  ret.raised = "" /\ IsNatural(ret.val, ret.words, tree)
    /\ ret.op = "sar.applyOrdering" =>
           /\ ret.raised = ""
           /\ sar.ordering = "no" => ret.val = ret.words
           /\ sar.ordering = "ascending" => IsSorted(ret.val, ret.words)
           /\ sar.ordering = "natural" => IsNatural(ret.val, ret.words, sar.searchOpTree)

\* pages [A, B, C, D], a SubTreePagesNode that fetched [C, A], ordering 'natural':
\* the result is [C, A, B, D]
C7_Witness ==
    /\ ret.op = "applyOrdering"
    /\ lp.ordering = "natural"
    /\ InSession
    /\ LpTree(lp, trees).kind = "SubTreePages"
    /\ LpTree(lp, trees).wordList = [none |-> FALSE, words |-> <<3, 1>>]
    /\ ret.words = <<1, 2, 3, 4>>
    /\ ret.val = <<3, 1, 2, 4>>

-----------------------------------------------------------------------------
(* Claims on saving and restoring the settings (specification SpecPack) *)

\* the settings of an operation: its data members without the cache and the session
Settings(op) ==
    [searchStr |-> op.searchStr, replaceStr |-> op.replaceStr,
     replaceOp |-> op.replaceOp, wholeWord |-> op.wholeWord,
     caseSensitive |-> op.caseSensitive, cycleToStart |-> op.cycleToStart,
     booleanOp |-> op.booleanOp, wildCard |-> op.wildCard,
     wikiWide |-> op.wikiWide, ordering |-> op.ordering]

\* the settings that serializeBin names
SerializedSettings(op) ==
    [searchStr |-> op.searchStr, replaceStr |-> op.replaceStr,
     replaceOp |-> op.replaceOp, wholeWord |-> op.wholeWord,
     caseSensitive |-> op.caseSensitive, cycleToStart |-> op.cycleToStart,
     booleanOp |-> op.booleanOp, wildCard |-> op.wildCard]

\* the bytes of src.getPackedSettings() have been restored to sar
Restored ==
    /\ ret.op = "setPackedSettings"
    /\ ret.version = 0
    /\ stream = GetPackedSettings(src)

\* C9: restoring the bytes of op.getPackedSettings() with setPackedSettings yields an
\* operation equal to op in all settings (the search and replace strings, the five
\* flags, the wildcard mode and the other settings: wikiWide and ordering), for
\* every combination of the flags.
C9_RoundTripAllSettings == Restored => Settings(sar) = Settings(src)

\* the settings serializeBin names do come back
PackedSettingsComeBack == Restored => SerializedSettings(sar) = SerializedSettings(src)

\* C10: reading data whose version tag is not 0, by an operation or by a page list
\* node, ends in a decode error and not in a normal return.
C10_VersionSurfaces ==
    (ret.op \in {"setPackedSettings", "node.serializeBin"} /\ ret.version # 0)
        => ret.ended = "DecodeError"

-----------------------------------------------------------------------------
(* Claims on compiling the search string (specification SpecCompile) *)

RECURSIVE LeafList(_)
\* the leaves of a tree, left to right
LeafList(n) ==
    IF n.kind = "And" THEN LeafList(n.left) \o LeafList(n.right) ELSE <<n>>

RECURSIVE LeafPaths(_)
\* the paths from the root to the leaves of a tree, left to right
LeafPaths(n) ==
    IF n.kind = "And"
    THEN Under("L", LeafPaths(n.left)) \o Under("R", LeafPaths(n.right))
    ELSE Here

RECURSIVE CountAnd(_)
\* the number of AndSearchNodes of a tree
CountAnd(n) ==
    IF n.kind = "And" THEN 1 + CountAnd(n.left) + CountAnd(n.right) ELSE 0

RECURSIVE KleeneAndAll(_)
\* the Kleene AND of a non-empty sequence of truth values
KleeneAndAll(vs) ==
    IF Len(vs) = 1 THEN vs[1] ELSE KleeneAnd(vs[1], KleeneAndAll(Tail(vs)))

\* the tree is compiled
Compiled == sar.searchOpTree # NoneTree

\* C11: with booleanOp, a search string that splits on ' and ' into s1..sn, n >= 2,
\* compiles to n-1 AndSearchNodes over the n criteria of s1..sn, left to right;
\* testText of the tree evaluates the leaves in that order up to the first one that
\* returns False and returns the Kleene AND of all of them. A string without ' and ',
\* and any string without booleanOp, compiles to a single node that is no
\* AndSearchNode.
C11_BooleanSplit ==
    Compiled =>
        LET tree == sar.searchOpTree
            segs == Split(sar.searchStr, AndSep)
            n == Len(segs)
        IN IF sar.booleanOp /\ Find(sar.searchStr, AndSep, 0) # -1
           THEN /\ n >= 2
                /\ CountAnd(tree) = n - 1
                /\ LeafList(tree) = [i \in 1..n |-> BuildSearchCriterion(sar, segs[i])]
                /\ ret.op = "tree.testText" =>
                       LET vals == [i \in 1..n |->
                                       TestText(BuildSearchCriterion(sar, segs[i]),
                                                ret.text).val]
                           falses == {i \in 1..n : vals[i] = "False"}
                           k == IF falses = {} THEN n ELSE Min(falses)
                       IN /\ ret.ev = SubSeq(LeafPaths(tree), 1, k)
                          /\ ret.val = KleeneAndAll(vals)
           ELSE /\ tree.kind # "And"
                /\ tree = BuildSearchCriterion(sar, sar.searchStr)

\* "a and b and c" on the text "a c": a is found, b is not, c is not looked for
C11_Witness ==
    /\ Compiled
    /\ sar.booleanOp
    /\ sar.searchStr = <<97, 32, 97, 110, 100, 32, 98, 32, 97, 110, 100, 32, 99>>
    /\ ret.op = "tree.testText"
    /\ ret.text = <<97, 32, 99>>
    /\ ret.val = "False"
    /\ ret.ev = << <<"L">>, <<"R", "L">> >>

-----------------------------------------------------------------------------
(* Claims on orderNatural of the nodes (specification SpecNode) *)

\* what C12 says of the call of node.orderNatural recorded in ret
OrderNaturalPartitions ==
    /\ ret.raised = ""
    /\ Cardinality(Range(ret.val)) = Len(ret.val)
    /\ Range(ret.val) \subseteq ret.wordSet
    /\ ret.left = ret.wordSet \ Range(ret.val)
    /\ node.kind = "And" =>
           LET l == OrderNatural(node.left, ret.wordSet)
               r == OrderNatural(node.right, l.wordSet)
           IN IF l.wordSet = {}
              THEN ret.val = l.val /\ ret.ev = Under("L", l.ev)
              ELSE /\ ret.val = l.val \o r.val
                   /\ ret.ev = Under("L", l.ev) \o Under("R", r.ev)
    /\ node.kind \notin {"And", "SubTreePages"} =>
           ret.val = <<>> /\ ret.left = ret.wordSet

\* C12 as stated, for any tree: orderNatural(W) returns a duplicate-free sequence of
\* elements of W and removes exactly those from W; an AndSearchNode puts the left
\* child's sequence first and asks the right child only if W is not empty after the
\* left one; nodes without a natural order return [] and leave W as it is.
C12_OrderNaturalPartitions ==
    ret.op = "node.orderNatural" => OrderNaturalPartitions

\* C12 for a tree in a session: the same, when every SubTreePagesNode of the tree
\* holds the list fetched at beginWikiSearch.
C12_OrderNaturalPartitionsInSession ==
    (ret.op = "node.orderNatural" /\ AllWordLists(node)) => OrderNaturalPartitions

\* the left SubTreePagesNode claims both pages of W in the order fetched, [C, A], and
\* the right SubTreePagesNode is not asked
C12_Witness ==
    /\ ret.op = "node.orderNatural"
    /\ node.kind = "And"
    /\ node.right.kind = "SubTreePages"
    /\ AllWordLists(node)
    /\ ret.wordSet = {1, 3}
    /\ ret.val = <<3, 1>>
    /\ ret.left = {}
    /\ ret.ev = << <<"L">> >>

-----------------------------------------------------------------------------
(* Claims on searching a text for a simple string (specification SpecSearch) *)

\* sub occurs in text at position p (0-based)
OccursAt(text, sub, p) ==
    /\ p >= 0
    /\ p + Len(sub) <= Len(text)
    /\ \A i \in 1..Len(sub) : text[p + i] = sub[i]

\* val is the span of the first occurrence of sub in text at or after from
IsFirstSpanFrom(val, text, sub, from) ==
    /\ val.found
    /\ val.start >= from
    /\ OccursAt(text, sub, val.start)
    /\ \A q \in from..(val.start - 1) : ~OccursAt(text, sub, q)
    /\ val.end = val.start + Len(sub)

\* C13: searchText(text, startPos, wrapAround) of a SimpleStrNode returns the span
\* (p, p + len(needle)) of the first occurrence at or after startPos; if there is
\* none, startPos is not 0 and wrapAround is set, the span of the first occurrence
\* from position 0, which starts before startPos; in every other case (None, None).
C13_SearchTextWraps ==
    ret.op \in {"node.searchText", "searchText"} =>
        LET later == \E p \in ret.pos..Len(ret.text) : OccursAt(ret.text, ret.subStr, p)
            any == \E p \in 0..Len(ret.text) : OccursAt(ret.text, ret.subStr, p)
        IN IF later THEN IsFirstSpanFrom(ret.val, ret.text, ret.subStr, ret.pos)
           ELSE IF ret.pos # 0 /\ ret.cycleToStart /\ any
           THEN /\ IsFirstSpanFrom(ret.val, ret.text, ret.subStr, 0)
                /\ ret.val.start < ret.pos
           ELSE ret.val = NotFound

\* "ab" in "xxabxx" from position 3, wrapping around: found at position 2
C13_Witness ==
    /\ ret.op = "searchText"
    /\ ret.subStr = <<97, 98>>
    /\ ret.text = <<120, 120, 97, 98, 120, 120>>
    /\ ret.pos = 3
    /\ ret.cycleToStart
    /\ ret.val = [found |-> TRUE, start |-> 2, end |-> 4]

-----------------------------------------------------------------------------
(* Claims on testText of the page list nodes (specification SpecNode) *)

IsCollection(n) == n.kind \in {"AllPages", "SubTreePages"}

IsContent(n) == n.kind \in {"SimpleStr", "RegexText"}

\* C14: testText of an AllPagesNode or SubTreePagesNode returns Unknown for every
\* text; an AndSearchNode of such a node and a content node returns Unknown from
\* testText when the content node returns True and False when it returns False.
C14_CollectionTestTextUnknown ==
    ret.op = "node.testText" =>
        /\ IsCollection(node) => ret.val = "Unknown"
        /\ (node.kind = "And" /\ IsCollection(node.left) /\ IsContent(node.right)) =>
               ret.val = IF TestText(node.right, ret.text).val = "True"
                         THEN "Unknown" ELSE "False"
        /\ (node.kind = "And" /\ IsContent(node.left) /\ IsCollection(node.right)) =>
               ret.val = IF TestText(node.left, ret.text).val = "True"
                         THEN "Unknown" ELSE "False"

====
